---- MODULE Spec2Model ----
(***************************************************************************)
(* State-machine model of src/app.py: the SD-WAN BFD monitor (class sdwan) *)
(* and the Eaton UPS power-cycle controller (class EatonUPS).              *)
(*                                                                         *)
(* The program is one sequential thread.  `pc` is its position; the HTTP   *)
(* collaborators (vManage, the UPS) are the environment: every response    *)
(* they give is drawn nondeterministically where the call is made.         *)
(***************************************************************************)
EXTENDS Integers, Sequences, FiniteSets, TLC

(* ------------------------------ bounds -------------------------------- *)
\* largest config["trigger"]["count"] explored
MaxCount == 3
\* largest number of monitored devices getDevices() collects for a site
MaxDevices == 4
\* how many entries beyond `count` a site's history may grow before the
\* model stops offering non-200 BFD responses (the code has no such limit)
MaxGrow == 1
\* largest number of records in the "data" array of a BFD response
MaxRecords == 2

(* --------------------------- program constants ------------------------ *)
\* powerCycle: `if count > 3`, the retry budget
MaxRetries == 3
\* powerCycle: sleep(5) before the status query of each attempt
SettleDelay == 5
\* powerCycle: sleep(2) after switchOutlet("On")
ConfirmDelay == 2

(* ------------------------------ inputs -------------------------------- *)
\* the configured sites, in dict iteration order (config["sites"])
SiteIds == <<1>>
Sites == {SiteIds[i] : i \in 1..Len(SiteIds)}
\* config["sites"][site]["color"], and the local-color values vManage reports
SiteColor(s) == "mpls"
Colors == {"mpls", "lte"}
\* the "state" values of a BFD session record
BfdStates == {"up", "down", "init"}
BfdRecords == [color : Colors, state : BfdStates]
\* the "data" arrays of a BFD response
RECURSIVE SeqsUpTo(_, _)
SeqsUpTo(S, n) ==
    IF n = 0 THEN {<<>>}
    ELSE LET shorter == SeqsUpTo(S, n - 1)
         IN  shorter \cup {Append(q, x) : q \in {r \in shorter : Len(r) = n - 1}, x \in S}
\* an HTTP response of the BFD state endpoint: status code and parsed data
Responses ==
    [status : {200}, data : SeqsUpTo(BfdRecords, MaxRecords)]
        \cup [status : {500}, data : {<<>>}]
NoResponse == [status |-> 0, data |-> <<>>]

VARIABLES
    pc,           \* position of the single thread of control
    exc,          \* where the exception that ended the process was raised ("" = none)
    count,        \* config["trigger"]["count"]
    token,        \* sdwan.getAuthToken saw the JSESSIONID cookie
    devices,      \* devices[s] = len(self.sites[s]["devices"])
    bfd,          \* bfd[s] = self.sites[s]["bfd"], newest entry first
    site,         \* index in SiteIds of the site the loop is at
    device,       \* index of the device the loop is at, in the site's list
    resp,         \* the BFD response handed to getBFDState (SpecClassifier only)
    session,      \* EatonUPS.session is truthy
    auth_header,  \* EatonUPS.auth_header is set
    state,        \* powerCycle's local `state`: "on", "off", "none" (None)
    tries,        \* powerCycle's local `count`
    outletOn,     \* environment: the outlet is physically switched on
    \* ---- history variables (observations, never read by the program) ----
    fired,        \* fired[s] = power-cycle invocations for s in this poll cycle
    startNeutral, \* startNeutral[s] = s's window was all "" when the cycle began
    allDown,      \* allDown[s] = every update of s in this cycle inserted "DOWN"
    result,       \* outcome of the remediation session in progress / just ended
    initOn,       \* the initial status query of the session reported ON
    answered,     \* every outlet call of the session was answered and took effect
    offCmds,      \* switchOutlet("Off") calls in the session
    onCmds,       \* switchOutlet("On") calls in the session
    sawOn,        \* a status query inside the retry loop reported ON
    queries,      \* getOutletStatus calls in the session
    last,         \* the last outlet call of the session: "status", "Off", "On"
    waited,       \* the sleep powerCycle made since that call (0 = none)
    cycles,       \* cycles[s] = poll cycles begun since startup or since s's
                  \* last reset, the running one included, counted up to `count`
    downRun,      \* downRun[s] = updates of s that inserted "DOWN" in a row since
                  \* startup or s's last reset, counted up to `count`
    probeDown     \* the latest BFD query got a response that classified DOWN

vars == <<pc, exc, count, token, devices, bfd, site, device, resp,
          session, auth_header, state, tries, outletOn,
          fired, startNeutral, allDown, result, initOn, answered,
          offCmds, onCmds, sawOn, queries, last, waited,
          cycles, downRun, probeDown>>

monitorVars == <<devices, bfd, site, device, fired, startNeutral, allDown,
                 cycles, downRun, probeDown>>
upsVars == <<session, auth_header, state, tries, outletOn,
             result, initOn, answered, offCmds, onCmds, sawOn, queries,
             last, waited>>


(* ------------------------- pure helpers (sdwan) ----------------------- *)
\* mutant: the reset list is one entry short
NeutralWindow_OneShort(n) == [i \in 1..(n - 1) |-> ""]

\* [""] * config["trigger"]["count"]
NeutralWindow(n) == [i \in 1..n |-> ""]

\* lst[:-1]
DropLast(w) == SubSeq(w, 1, Len(w) - 1)

\* lst.insert(0, x)
Insert0(w, x) == <<x>> \o w

\* [x for x in data if x["local-color"] == color]
MatchingColor(data, color) == SelectSeq(data, LAMBDA x : x.color = color)

\* all([x["state"] == st for x in recs])
AllInState(recs, st) == \A i \in 1..Len(recs) : recs[i].state = st

\* mutant: the records are not filtered by colour
ClassifyBFD_NoFilter(data, color) ==
    IF AllInState(data, "down") THEN "DOWN"
    ELSE IF AllInState(data, "up") THEN "UP"
    ELSE "PARTIAL"

\* the if / elif / else of getBFDState that picks the entry to insert
ClassifyBFD(data, color) ==
    IF AllInState(MatchingColor(data, color), "down") THEN "DOWN"
    ELSE IF AllInState(MatchingColor(data, color), "up") THEN "UP"
    ELSE "PARTIAL"

\* mutant: the newest entry is evicted instead of the oldest
GetBFDStateUpdate_EvictNewest(w, r, color) ==
    IF r.status = 200
    THEN Insert0(SubSeq(w, 2, Len(w)), ClassifyBFD(r.data, color))
    ELSE Insert0(w, "UNKNOWN")

\* getBFDState from the response on: the new value of self.sites[site]["bfd"]
GetBFDStateUpdate(w, r, color) ==
    IF r.status = 200
    THEN Insert0(DropLast(w), ClassifyBFD(r.data, color))
    ELSE Insert0(w, "UNKNOWN")

\* mutant: any() instead of all()
IsConfirmedDown_Any(w) == \E i \in 1..Len(w) : w[i] = "DOWN"

\* mutant: only the newest entry is looked at
IsConfirmedDown_Newest(w) == Len(w) > 0 /\ w[1] = "DOWN"

\* all(x == "DOWN" for x in self.sites[site]["bfd"])
IsConfirmedDown(w) == \A i \in 1..Len(w) : w[i] = "DOWN"

\* len([x for x in self.sites[site]["bfd"] if x == "DOWN"]), the status summary
CountDown(w) == Cardinality({i \in 1..Len(w) : w[i] = "DOWN"})

\* The responses the monitor loop is offered: one of Responses for each
\* distinct effect getBFDState can have on a history (every response has the
\* effect of one of these; the classifier itself is run on all of Responses
\* under SpecClassifier).
ProbeEffect(r) == GetBFDStateUpdate(<<"">>, r, SiteColor(SiteIds[1]))
ProbeResponses ==
    {CHOOSE r \in Responses : ProbeEffect(r) = e : e \in {ProbeEffect(q) : q \in Responses}}

(* ----------------------- control flow of startMonitor ----------------- *)
\* the first device at or after site index i, or the sleep that ends the pass
RECURSIVE FirstDeviceFrom(_, _)
FirstDeviceFrom(i, devs) ==
    IF i > Len(SiteIds) THEN [pc |-> "sleep", site |-> 1, device |-> 0]
    ELSE IF devs[SiteIds[i]] > 0 THEN [pc |-> "getBFDState", site |-> i, device |-> 1]
    ELSE FirstDeviceFrom(i + 1, devs)

\* where the loops go after the body for (site index i, device d) is done
AfterDevice(i, d, devs) ==
    IF d < devs[SiteIds[i]] THEN [pc |-> "getBFDState", site |-> i, device |-> d + 1]
    ELSE FirstDeviceFrom(i + 1, devs)

CurSite == SiteIds[site]

Goto(p) == /\ pc' = p.pc
           /\ site' = p.site
           /\ device' = p.device

\* an uncaught exception unwinds to __main__, which only catches KeyboardInterrupt
Raise(where) == /\ pc' = "terminated"
                /\ exc' = where

IdleUps == /\ session = FALSE /\ auth_header = FALSE /\ state = "none"
           /\ tries = 0 /\ outletOn = FALSE /\ result = "" /\ initOn = FALSE
           /\ answered = TRUE /\ offCmds = 0 /\ onCmds = 0 /\ sawOn = FALSE
           /\ queries = 0 /\ last = "" /\ waited = 0

(* ------------------------------- Init --------------------------------- *)
\* config loaded and validated, sdwan.setup() done
Init ==
    /\ pc = "getAuthToken"
    /\ exc = ""
    /\ count \in 1..MaxCount
    /\ token = FALSE
    /\ devices = [s \in Sites |-> 0]
    /\ bfd = [s \in Sites |-> NeutralWindow(count)]
    /\ site = 1
    /\ device = 0
    /\ resp = NoResponse
    /\ IdleUps
    /\ fired = [s \in Sites |-> 0]
    /\ startNeutral = [s \in Sites |-> TRUE]
    /\ allDown = [s \in Sites |-> TRUE]
    /\ cycles = [s \in Sites |-> 1]
    /\ downRun = [s \in Sites |-> 0]
    /\ probeDown = FALSE

(* --------------------------- sdwan: startup --------------------------- *)
\* sdwan.getAuthToken
SdwanGetAuthToken ==
    /\ pc = "getAuthToken"
    /\ \/ \* ConnectTimeout: log.fatal, sys.exit(1)
          /\ Raise("SystemExit") /\ UNCHANGED token
       \/ \* any other transport error is not caught
          /\ Raise("sdwan.getAuthToken") /\ UNCHANGED token
       \/ \* status 200 and a JSESSIONID cookie: return
          /\ token' = TRUE /\ pc' = "getDevices" /\ UNCHANGED exc
       \/ \* status 200 without the cookie: the for loop ends, the method returns
          /\ token' = FALSE /\ pc' = "getDevices" /\ UNCHANGED exc
       \/ \* any other status: log.fatal, sys.exit(1)
          /\ Raise("SystemExit") /\ UNCHANGED token
    /\ UNCHANGED <<count, resp, monitorVars, upsVars>>

\* sdwan.getDevices, then the first pass of startMonitor begins
GetDevices ==
    /\ pc = "getDevices"
    /\ \/ \* status 200: the reachable non-controller devices of configured sites
          \E d \in [Sites -> 0..MaxDevices] :
             /\ devices' = d
             /\ Goto(FirstDeviceFrom(1, d))
             /\ UNCHANGED exc
       \/ \* any other status: log.error, no device is added
          /\ Goto(FirstDeviceFrom(1, devices))
          /\ UNCHANGED <<devices, exc>>
       \/ \* transport error
          /\ Raise("getDevices") /\ UNCHANGED <<devices, site, device>>
    /\ UNCHANGED <<count, token, resp, bfd, fired, startNeutral, allDown,
                   cycles, downRun, probeDown, upsVars>>

(* ------------------------ sdwan: the monitor loop --------------------- *)
\* self.getBFDState(site, device, color)
GetBFDState ==
    /\ pc = "getBFDState"
    /\ \/ \E r \in ProbeResponses :
             /\ r.status = 200 \/ Len(bfd[CurSite]) < count + MaxGrow
             /\ bfd' = [bfd EXCEPT ![CurSite] = GetBFDStateUpdate(@, r, SiteColor(CurSite))]
             /\ allDown' = [allDown EXCEPT ![CurSite] = @ /\ Head(bfd'[CurSite]) = "DOWN"]
             /\ downRun' = [downRun EXCEPT ![CurSite] =
                                IF Head(bfd'[CurSite]) # "DOWN" THEN 0
                                ELSE IF @ < count THEN @ + 1 ELSE @]
             /\ probeDown' = (r.status = 200 /\ Head(bfd'[CurSite]) = "DOWN")
             /\ pc' = "check"
             /\ UNCHANGED exc
       \/ \* session.get raises (timeout, connection error): nothing catches it
          /\ Raise("getBFDState") /\ probeDown' = FALSE
          /\ UNCHANGED <<bfd, allDown, downRun>>
    /\ UNCHANGED <<count, token, resp, devices, site, device, fired, startNeutral,
                   cycles, upsVars>>

\* if all(x == "DOWN" ...): ups = EatonUPS(...); otherwise on to the next device
CheckTrigger ==
    /\ pc = "check"
    /\ IF IsConfirmedDown(bfd[CurSite])
       THEN /\ pc' = "EatonUPS"
            /\ fired' = [fired EXCEPT ![CurSite] = @ + 1]
            /\ UNCHANGED <<site, device>>
       ELSE /\ Goto(AfterDevice(site, device, devices))
            /\ UNCHANGED fired
    /\ UNCHANGED <<exc, count, token, resp, devices, bfd, startNeutral, allDown,
                   cycles, downRun, probeDown, upsVars>>

\* powerCycle has returned: self.sites[site]["bfd"] = [""] * count; the ups
\* object is dropped
ResetMonitoring ==
    /\ pc = "reset"
    /\ bfd' = [bfd EXCEPT ![CurSite] = NeutralWindow(count)]
    /\ Goto(AfterDevice(site, device, devices))
    /\ session' = FALSE /\ auth_header' = FALSE /\ state' = "none"
    /\ tries' = 0 /\ outletOn' = FALSE /\ result' = "" /\ initOn' = FALSE
    /\ answered' = TRUE /\ offCmds' = 0 /\ onCmds' = 0 /\ sawOn' = FALSE
    /\ queries' = 0 /\ last' = "" /\ waited' = 0
    /\ cycles' = [cycles EXCEPT ![CurSite] = 1]
    /\ downRun' = [downRun EXCEPT ![CurSite] = 0]
    /\ UNCHANGED <<exc, count, token, resp, devices, fired, startNeutral, allDown,
                   probeDown>>

\* log "Health checks complete.", sleep(interval), and the next pass begins
Sleep ==
    /\ pc = "sleep"
    /\ Goto(FirstDeviceFrom(1, devices))
    /\ fired' = [s \in Sites |-> 0]
    /\ startNeutral' = [s \in Sites |-> bfd[s] = NeutralWindow(count)]
    /\ allDown' = [s \in Sites |-> TRUE]
    /\ cycles' = [s \in Sites |-> IF cycles[s] < count THEN cycles[s] + 1 ELSE cycles[s]]
    /\ UNCHANGED <<exc, count, token, resp, devices, bfd, downRun, probeDown, upsVars>>


(* ------------------------------ EatonUPS ------------------------------ *)
\* the value getOutletStatus returns on status 200: status.switchedOn
Reported(on) == IF on THEN "on" ELSE "off"

\* Python truthiness of powerCycle's `state` (None and False are falsy)
Truthy(st) == st = "on"

\* what a call of EatonUPS.getOutletStatus can come to: the value returned on
\* status 200 (switchedOn), None on any other status (log.warn), or an
\* exception (session.get raises; AttributeError when self.auth_header was
\* never set)
OutletAnswers ==
    IF auth_header THEN {Reported(outletOn), "none", "raise"} ELSE {"raise"}

\* state = self.getOutletStatus() answered by `ans`, after which powerCycle
\* goes to `next`
GetOutletStatus(ans, next) ==
    /\ queries' = queries + 1
    /\ last' = "status" /\ waited' = 0
    /\ IF ans = "raise"
       THEN /\ Raise("getOutletStatus")
            /\ answered' = FALSE
            /\ UNCHANGED <<state, result>>
       ELSE /\ state' = ans
            /\ pc' = next
            /\ result' = IF next = "reset" THEN "SUCCESS" ELSE result
            /\ answered' = (answered /\ ans # "none")
            /\ UNCHANGED exc

\* EatonUPS.switchOutlet(operation): the status code is only logged
SwitchOutlet(turnOn, next) ==
    /\ \/ \* status 200: the outlet switches
          /\ outletOn' = turnOn
          /\ pc' = next
          /\ UNCHANGED <<exc, answered>>
       \/ \* any other status: log.warn, the outlet stays as it is
          /\ pc' = next
          /\ answered' = FALSE
          /\ UNCHANGED <<exc, outletOn>>
       \/ \* session.post raises
          /\ Raise("switchOutlet")
          /\ answered' = FALSE
          /\ UNCHANGED outletOn

\* ups = EatonUPS(ip): __init__ and getAuthToken.  The outlet is in whatever
\* state the environment left it.
EatonUPSInit ==
    /\ pc = "EatonUPS"
    /\ outletOn' \in BOOLEAN
    /\ \/ \* ConnectTimeout: log.error, self.session = False
          /\ session' = FALSE /\ auth_header' = FALSE
          /\ pc' = "powerCycle" /\ UNCHANGED exc
       \/ \* status 200: the Authorization header is stored
          /\ session' = TRUE /\ auth_header' = TRUE
          /\ pc' = "powerCycle" /\ UNCHANGED exc
       \/ \* any other status: log.warn only
          /\ session' = TRUE /\ auth_header' = FALSE
          /\ pc' = "powerCycle" /\ UNCHANGED exc
       \/ \* any other transport error is not caught
          /\ session' = TRUE /\ auth_header' = FALSE
          /\ Raise("EatonUPS.getAuthToken")
    /\ UNCHANGED <<count, token, resp, monitorVars, state, tries,
                   result, initOn, answered, offCmds, onCmds, sawOn, queries,
                   last, waited>>

\* ups.powerCycle(outlet): `if not self.session: return`
PowerCycle ==
    /\ pc = "powerCycle"
    /\ IF ~session
       THEN /\ pc' = "reset" /\ result' = "NOOP"
       ELSE /\ pc' = "initialStatus" /\ UNCHANGED result
    /\ UNCHANGED <<exc, count, token, resp, monitorVars, session, auth_header,
                   state, tries, outletOn, initOn, answered, offCmds, onCmds,
                   sawOn, queries, last, waited>>

\* mutant: the outlet is never switched off
AfterInitialStatus_SkipOff(st) == "loop"

\* state = self.getOutletStatus(); if state: ...
AfterInitialStatus(st) == IF Truthy(st) THEN "switchOff" ELSE "loop"
InitialStatus ==
    /\ pc = "initialStatus"
    /\ \E ans \in OutletAnswers : GetOutletStatus(ans, AfterInitialStatus(ans))
    /\ initOn' = (pc' # "terminated" /\ state' = "on")
    /\ UNCHANGED <<count, token, resp, monitorVars, session, auth_header,
                   tries, outletOn, offCmds, onCmds, sawOn>>

\* self.switchOutlet("Off")
SwitchOff ==
    /\ pc = "switchOff"
    /\ offCmds' = offCmds + 1
    /\ SwitchOutlet(FALSE, "loop")
    /\ last' = "Off" /\ waited' = 0
    /\ UNCHANGED <<count, token, resp, monitorVars, session, auth_header,
                   state, tries, result, initOn, onCmds, sawOn, queries>>

\* mutant: `if count >= 3`
BudgetExceeded_OffByOne(n) == n >= MaxRetries

\* `if count > 3`
BudgetExceeded(n) == n > MaxRetries

\* top of `while True`: count += 1; if count > MaxRetries: log.error, break;
\* sleep(SettleDelay)
RetryLoop ==
    /\ pc = "loop"
    /\ tries' = tries + 1
    /\ IF BudgetExceeded(tries')
       THEN /\ pc' = "reset" /\ result' = "FAILURE" /\ UNCHANGED waited
       ELSE /\ pc' = "retryStatus" /\ waited' = SettleDelay /\ UNCHANGED result
    /\ UNCHANGED <<exc, count, token, resp, monitorVars, session, auth_header,
                   state, outletOn, initOn, answered, offCmds, onCmds, sawOn, queries,
                   last>>

\* state = self.getOutletStatus(); if not state: ... ; if state: break
AfterRetryStatus(st) == IF ~Truthy(st) THEN "switchOn" ELSE "reset"
RetryStatus ==
    /\ pc = "retryStatus"
    /\ \E ans \in OutletAnswers : GetOutletStatus(ans, AfterRetryStatus(ans))
    /\ sawOn' = (sawOn \/ (pc' # "terminated" /\ state' = "on"))
    /\ UNCHANGED <<count, token, resp, monitorVars, session, auth_header,
                   tries, outletOn, initOn, offCmds, onCmds>>

\* self.switchOutlet("On"); sleep(ConfirmDelay)
SwitchOn ==
    /\ pc = "switchOn"
    /\ onCmds' = onCmds + 1
    /\ SwitchOutlet(TRUE, "confirmStatus")
    /\ last' = "On"
    \* sleep(ConfirmDelay) is made only when switchOutlet returned
    /\ waited' = IF pc' = "terminated" THEN 0 ELSE ConfirmDelay
    /\ UNCHANGED <<count, token, resp, monitorVars, session, auth_header,
                   state, tries, result, initOn, offCmds, sawOn, queries>>

\* mutant: the loop is left after the confirm query whatever it reported
AfterConfirmStatus_AlwaysExit(st) == "reset"

\* state = self.getOutletStatus(); if not state: continue; if state: break
AfterConfirmStatus(st) == IF ~Truthy(st) THEN "loop" ELSE "reset"
ConfirmStatus ==
    /\ pc = "confirmStatus"
    /\ \E ans \in OutletAnswers : GetOutletStatus(ans, AfterConfirmStatus(ans))
    /\ sawOn' = (sawOn \/ (pc' # "terminated" /\ state' = "on"))
    /\ UNCHANGED <<count, token, resp, monitorVars, session, auth_header,
                   tries, outletOn, initOn, offCmds, onCmds>>

(* --------------------------- specifications --------------------------- *)
Next ==
    \/ SdwanGetAuthToken
    \/ GetDevices
    \/ GetBFDState
    \/ CheckTrigger
    \/ ResetMonitoring
    \/ Sleep
    \/ EatonUPSInit
    \/ PowerCycle
    \/ InitialStatus
    \/ SwitchOff
    \/ RetryLoop
    \/ RetryStatus
    \/ SwitchOn
    \/ ConfirmStatus

Spec == Init /\ [][Next]_vars

\* The same program under the assumption that it keeps running: every HTTP
\* call returns or raises (each has a timeout) and every sleep ends, so a step
\* that can be taken is taken.
SpecLive == Init /\ [][Next]_vars /\ WF_vars(Next)

\* The classifier on its own: getBFDState is handed every response of
\* Responses, for the first configured site with a fresh window.
InitClassifier ==
    /\ pc = "classify"
    /\ exc = ""
    /\ count \in 1..MaxCount
    /\ token = TRUE
    /\ devices = [s \in Sites |-> 1]
    /\ bfd = [s \in Sites |-> NeutralWindow(count)]
    /\ site = 1
    /\ device = 1
    /\ resp \in Responses
    /\ IdleUps
    /\ fired = [s \in Sites |-> 0]
    /\ startNeutral = [s \in Sites |-> TRUE]
    /\ allDown = [s \in Sites |-> TRUE]
    /\ cycles = [s \in Sites |-> 1]
    /\ downRun = [s \in Sites |-> 0]
    /\ probeDown = FALSE

Classify ==
    /\ pc = "classify"
    /\ bfd' = [bfd EXCEPT ![CurSite] = GetBFDStateUpdate(@, resp, SiteColor(CurSite))]
    /\ pc' = "classified"
    /\ UNCHANGED <<exc, count, token, resp, devices, site, device,
                   fired, startNeutral, allDown, cycles, downRun, probeDown, upsVars>>

NextClassifier == Classify

SpecClassifier == InitClassifier /\ [][NextClassifier]_vars


(* ------------------------------- claims ------------------------------- *)
Window(s) == bfd[s]
AllEntries(w, x) == \A i \in 1..Len(w) : w[i] = x

\* C1: every site's liveness history holds exactly `count` entries in every
\* reachable state (at startup, after every update, after every reset).
C1_WindowHasCountEntries == \A s \in Sites : Len(Window(s)) = count

\* C2: within one poll cycle the power-cycle controller is invoked at most
\* once per site, whatever the trigger count and the number of devices.
C2_AtMostOncePerCycle == \A s \in Sites : fired[s] <= 1

\* C3: with count = 3 and a window all-neutral when the cycle began, a site
\* whose three devices all classify DOWN in the cycle gets exactly one
\* power-cycle invocation and ends the cycle (so begins the next) with an
\* all-neutral window; with a 4th DOWN update in the cycle there is still
\* exactly one invocation.
C3_OneInvocationPerConfirmedOutage ==
    \A s \in Sites :
        (pc = "sleep" /\ count = 3 /\ startNeutral[s] /\ allDown[s]) =>
            /\ devices[s] = 3 => (fired[s] = 1 /\ AllEntries(Window(s), "") /\ Len(Window(s)) = 3)
            /\ devices[s] = 4 => fired[s] = 1
C3_Witness ==
    /\ pc = "sleep" /\ count = 3 /\ devices[1] = 3
    /\ startNeutral[1] /\ allDown[1] /\ fired[1] = 1

\* C4: the check made after a per-device update invokes the power-cycle
\* controller if and only if every entry of the site's window is DOWN.
C4_TriggerIffAllDown ==
    [][pc = "check" =>
          ((pc' = "EatonUPS" /\ fired'[CurSite] = fired[CurSite] + 1)
              <=> AllEntries(Window(CurSite), "DOWN"))]_vars
C4_Witness ==
    /\ pc = "EatonUPS" /\ fired[CurSite] = 1
    /\ Len(Window(CurSite)) >= 2 /\ AllEntries(Window(CurSite), "DOWN")

\* C5: when a power-cycle invocation has returned to the monitor loop, with
\* whatever outcome, the next step leaves the triggering site's window at
\* exactly `count` neutral entries, for which the trigger check is false.
C5_ResetAfterPowerCycle ==
    [][pc = "reset" =>
          /\ result \in {"SUCCESS", "FAILURE", "NOOP"}
          /\ Len(bfd'[CurSite]) = count
          /\ AllEntries(bfd'[CurSite], "")
          /\ ~AllEntries(bfd'[CurSite], "DOWN")]_vars
C5_Witness ==
    /\ pc = "sleep" /\ fired[1] = 1
    /\ Len(Window(1)) = count /\ AllEntries(Window(1), "")

\* the states reported by the records of the requested colour
MatchingStates ==
    {resp.data[i].state :
        i \in {j \in 1..Len(resp.data) : resp.data[j].color = SiteColor(CurSite)}}

\* C6: for a successfully fetched record set with at least one record of the
\* requested colour, the entry inserted is DOWN when all of those are down,
\* UP when all are up, PARTIAL when they are mixed; it is a function of the
\* records of the requested colour alone.
C6_ClassifierOnMatchingRecords ==
    (pc = "classified" /\ resp.status = 200 /\ MatchingStates # {}) =>
        /\ MatchingStates = {"down"} => Head(Window(CurSite)) = "DOWN"
        /\ MatchingStates = {"up"} => Head(Window(CurSite)) = "UP"
        /\ Cardinality(MatchingStates) > 1 => Head(Window(CurSite)) = "PARTIAL"
C6_Witness ==
    /\ pc = "classified" /\ resp.status = 200
    /\ MatchingStates = {"down"}
    /\ \E i \in 1..Len(resp.data) :
          resp.data[i].color # SiteColor(CurSite) /\ resp.data[i].state = "up"
    /\ Head(Window(CurSite)) = "DOWN"

\* C7: when a successful fetch returns no record of the requested colour, the
\* entry inserted in the window is UNKNOWN, never DOWN.
C7_NoMatchIsUnknown ==
    (pc = "classified" /\ resp.status = 200 /\ MatchingStates = {}) =>
        Head(Window(CurSite)) = "UNKNOWN"

\* C8: a failed path-status query (non-success response or transport error)
\* never ends the monitor loop: no exception leaves getBFDState.
C8_ProbeFailureContained == pc = "terminated" => exc # "getBFDState"

\* C9: a session with a valid session whose outlet is initially ON and whose
\* every call is answered and takes effect issues one Off, then (in a retry
\* attempt, after the settle wait) one On, observes ON and ends in SUCCESS
\* within 3 attempts.
C9_PowerCycleHappyPath ==
    (session /\ auth_header /\ initOn /\ answered) =>
        /\ pc = "switchOn" => (offCmds = 1 /\ onCmds = 0 /\ tries >= 1 /\ state = "off")
        /\ pc = "reset" =>
              /\ result = "SUCCESS"
              /\ offCmds = 1 /\ onCmds = 1
              /\ state = "on" /\ outletOn
              /\ tries >= 1 /\ tries <= 3
C9_Witness ==
    /\ pc = "reset" /\ session /\ auth_header /\ initOn /\ answered
    /\ result = "SUCCESS" /\ offCmds = 1 /\ onCmds = 1

\* C10: a session in which no status query of the retry loop reports ON makes
\* exactly 3 retry attempts with at most 3 On commands and ends in FAILURE;
\* there is no 4th attempt, and once failure is declared the controller has
\* returned (no further outlet call).
C10_RetriesExhausted ==
    /\ onCmds <= 3
    /\ queries <= 1 + 2 * 3
    /\ pc \in {"retryStatus", "switchOn", "confirmStatus"} => tries <= 3
    /\ result = "FAILURE" => (pc = "reset" /\ ~sawOn)
    /\ (pc = "reset" /\ session /\ ~sawOn) =>
          /\ result = "FAILURE"
          /\ tries = 3 + 1
          /\ onCmds = 3
          /\ queries = 1 + 2 * 3
C10_Witness ==
    /\ pc = "reset" /\ session /\ ~sawOn
    /\ result = "FAILURE" /\ onCmds = 3

\* the positions inside one remediation: from EatonUPS(...) to powerCycle's return
InSession ==
    pc \in {"powerCycle", "initialStatus", "switchOff", "loop",
            "retryStatus", "switchOn", "confirmStatus", "reset"}
\* C11: when authentication to the UPS failed (connection timeout or a
\* non-success response: no Authorization header was obtained) the controller
\* makes no status query and no switch command, ends as a reported failure
\* without raising, and the monitor loop goes on.
C11_UpsAuthFailureIsNoOp ==
    ((InSession \/ (pc = "terminated" /\ exc = "getOutletStatus")) /\ ~auth_header) =>
        /\ pc \in {"powerCycle", "reset"}
        /\ queries = 0 /\ offCmds = 0 /\ onCmds = 0
        /\ pc = "reset" => result = "NOOP"

\* C12: every power-cycle invocation ends by returning to the monitor loop
\* (SUCCESS, FAILURE or no-op) within the retry budget, whatever the UPS
\* answers: no sequence of responses makes it raise and end the loop.
C12_PowerCycleAlwaysReturns ==
    /\ InSession => tries <= 3 + 1
    /\ pc = "reset" => result \in {"SUCCESS", "FAILURE", "NOOP"}
    /\ ~(pc = "terminated" /\ exc = "getOutletStatus" /\ session /\ ~auth_header)

\* C13: the program gets past sdwan.getAuthToken (to the device inventory and
\* the monitor loop) only with a session token.
C13_MonitorOnlyWithToken ==
    (pc # "getAuthToken" /\ ~(pc = "terminated" /\ exc \in {"SystemExit", "sdwan.getAuthToken"}))
        => token

\* C17: a session that ends in SUCCESS has made at least two outlet calls, at
\* least one of them a switch command (Off or On).
C17_SuccessHasSwitched ==
    result = "SUCCESS" =>
        /\ offCmds + onCmds >= 1
        /\ queries + offCmds + onCmds >= 2

\* C18: a status query that failed (non-200, None returned) is a no-op: no
\* switch command is issued on the strength of it.
C18_FailedQueryIsNoOp ==
    pc \in {"switchOff", "switchOn"} => state # "none"

\* C14: a power-cycle invocation for a site occurs only after `count` poll
\* cycles since startup or since the site's last reset: whenever the monitor
\* is about to build the EatonUPS object for a site, at least `count` poll
\* cycles have begun for that site since then.
C14_FireOnlyAfterCountCycles ==
    pc = "EatonUPS" => cycles[CurSite] >= count

\* C15: before every power-cycle invocation for a site, the last `count`
\* updates recorded for the site since startup or since its last reset all
\* inserted DOWN, whatever the outcome of the earlier remediation was.
C15_CountDownUpdatesBeforeInvocation ==
    pc = "EatonUPS" => downRun[CurSite] >= count

\* a second invocation in one poll cycle, reached over a reset and `count`
\* further DOWN updates
C15_Witness ==
    /\ pc = "EatonUPS"
    /\ count >= 2
    /\ fired[CurSite] = 2
    /\ downRun[CurSite] = count

\* C16: within a remediation session the calls are ordered as the state
\* machine prescribes.  Off is commanded at most once, at entry, directly
\* after the initial status query reported ON.  Every On is commanded inside a
\* retry attempt, directly after a status query of that attempt that did not
\* report ON, that query having come after the attempt's settle wait; after
\* an On the next thing the session does is the confirm wait and a status
\* query.  The session exits SUCCESS only on a status query that reported ON.
C16_Step ==
    /\ offCmds' = offCmds + 1 =>
          /\ offCmds = 0 /\ onCmds = 0 /\ tries = 0
          /\ queries = 1 /\ last = "status" /\ waited = 0
          /\ state = "on"
    /\ onCmds' = onCmds + 1 =>
          /\ tries \in 1..MaxRetries
          /\ last = "status" /\ waited = 0
          /\ state # "on"
    /\ (queries' = queries + 1 /\ tries >= 1) =>
          waited = (IF last = "On" THEN ConfirmDelay ELSE SettleDelay)
    /\ (last = "On" /\ pc' # "terminated") =>
          /\ waited = ConfirmDelay
          /\ queries' = queries + 1
    /\ (result # "SUCCESS" /\ result' = "SUCCESS") =>
          /\ last' = "status"
          /\ state' = "on"
C16_SessionCallOrder == [][C16_Step]_vars

\* a session that commanded Off, needed two On commands, and ended SUCCESS
C16_Witness ==
    /\ pc = "reset" /\ result = "SUCCESS"
    /\ offCmds = 1 /\ onCmds = 2 /\ tries = 2
    /\ last = "status" /\ state = "on"

\* C19: liveness.  If from some point on every BFD query is answered and
\* classifies DOWN, and the process is never ended by an exception, then a
\* power-cycle invocation for the site occurs again and again.  (No query is
\* ever made for a site without devices, so probeDown then never holds.)
C19_PersistentOutageIsRemediated ==
    (<>[]probeDown /\ [](pc # "terminated")) => []<>(pc = "EatonUPS")

\* an invocation for a site with one device, reached over `count` >= 2 poll
\* cycles that each classified DOWN
C19_Witness ==
    /\ pc = "EatonUPS"
    /\ probeDown
    /\ devices[CurSite] = 1
    /\ count >= 2
    /\ cycles[CurSite] = count

====
